---- MODULE Spec2Model ----
(***************************************************************************)
(* Model of backend/main.py of policy-suggester: the ordered model         *)
(* fallback, the salvage parsing of the model text, the reference matcher  *)
(* and the deterministic recomputation of ages, amounts and totals.        *)
(***************************************************************************)
EXTENDS Integers, Naturals, Sequences, FiniteSets, TLC

VARIABLES
    outcomes,        \* fallback: per candidate, "ok" or "fail" (the backend's behaviour)
    tools,           \* fallback: TRUE when kwargs carries "tools"
    idx,             \* fallback: position of the for-loop in MODEL_CANDIDATES
    attempts,        \* fallback: the generate_content calls issued so far
    last_exception,  \* fallback: the local last_exception (NoException = None)
    fb,              \* fallback: "running", "returned" or "raised"
    response         \* fallback: the returned response / the raised cause

VARIABLES
    handler,         \* the endpoint serving the request: "extract", "compare" or "none"
    raw,             \* response.text of the candidate that succeeded
    today,           \* datetime.now() during the request
    company,         \* compare: data.get("company", "Unknown") of the request body
    scenario,        \* how the backend produced its reply (what the reply was built from)
    out              \* what the handler hands back to the caller (Pending before)

VARIABLES
    start_date,      \* compare: policy_details.start_date of the request body ('' if absent)
    calculated_tenure, \* compare: the local calculated_tenure (NotComputed before)
    ratios           \* compare: the rows of company_performance_ratios.csv (NoFile if absent)

VARIABLES
    query,           \* matcher: the arguments company_name and plan_name
    csv_content,     \* matcher: the rows of the reference dataset, in file order
    matched          \* matcher: what match_policy_in_csv returned (NotMatched before)

fbVars == <<outcomes, tools, idx, attempts, last_exception, fb, response>>

cmpVars == <<start_date, calculated_tenure, ratios>>

reqVars == <<handler, raw, today, company, scenario, out,
             start_date, calculated_tenure, ratios>>

matchVars == <<query, csv_content, matched>>

vars == <<outcomes, tools, idx, attempts, last_exception, fb, response,
          handler, raw, today, company, scenario, out,
          start_date, calculated_tenure, ratios,
          query, csv_content, matched>>

(***************************************************************************)
(* Text.  A Python str is the sequence of its characters; Chars turns a    *)
(* literal into that sequence.  The character ~ stands for the backquote,  *)
(* which a TLA+ string literal cannot hold, so the fence marker of the     *)
(* source is written "~~~" here.                                           *)
(***************************************************************************)
Chars(str) == [i \in 1..Len(str) |-> SubSeq(str, i, i)]

Min(S) == CHOOSE x \in S : \A y \in S : x <= y
Max(S) == CHOOSE x \in S : \A y \in S : x >= y

MatchesAt(s, sub, i) ==
    /\ i + Len(sub) - 1 <= Len(s)
    /\ SubSeq(s, i, i + Len(sub) - 1) = sub

\* str.find and str.rfind: 0-based position, -1 when absent
Find(s, sub) ==
    LET hits == {i \in 1..(Len(s) + 1) : MatchesAt(s, sub, i)}
    IN  IF hits = {} THEN -1 ELSE Min(hits) - 1

RFind(s, sub) ==
    LET hits == {i \in 1..(Len(s) + 1) : MatchesAt(s, sub, i)}
    IN  IF hits = {} THEN -1 ELSE Max(hits) - 1

\* the operator "sub in s" on two strings
Contains(s, sub) == Find(s, sub) # -1

\* the slice s[a:b] for non-negative a and b
Slice(s, a, b) == SubSeq(s, a + 1, IF b > Len(s) THEN Len(s) ELSE b)

\* s.split(sep) for a non-empty separator
RECURSIVE Split(_, _)
Split(s, sep) ==
    LET i == Find(s, sep)
    IN  IF i = -1
           THEN <<s>>
           ELSE <<Slice(s, 0, i)>> \o Split(Slice(s, i + Len(sep), Len(s)), sep)

RECURSIVE Join(_, _)
Join(parts, sep) ==
    IF Len(parts) = 1
       THEN parts[1]
       ELSE parts[1] \o sep \o Join(Tail(parts), sep)

\* s.replace(old, new)
Replace(s, old, new) == Join(Split(s, old), new)

WhiteSpace == {" ", "\t", "\n", "\r"}

\* s.strip()
Strip(s) ==
    LET keep == {i \in 1..Len(s) : s[i] \notin WhiteSpace}
    IN  IF keep = {} THEN <<>> ELSE SubSeq(s, Min(keep), Max(keep))

UpperCase == Chars("ABCDEFGHIJKLMNOPQRSTUVWXYZ")
LowerCase == Chars("abcdefghijklmnopqrstuvwxyz")

\* s.lower()
Lower(s) ==
    [i \in 1..Len(s) |->
        IF \E k \in 1..26 : UpperCase[k] = s[i]
           THEN LowerCase[CHOOSE k \in 1..26 : UpperCase[k] = s[i]]
           ELSE s[i]]

DigitChars == Chars("0123456789")
IsDigit(c) == \E k \in 1..10 : DigitChars[k] = c
DigitVal(c) == (CHOOSE k \in 1..10 : DigitChars[k] = c) - 1

\* int(s) for a non-empty string of decimal digits
RECURSIVE ToInt(_)
ToInt(s) ==
    IF Len(s) = 0 THEN 0
    ELSE 10 * ToInt(SubSeq(s, 1, Len(s) - 1)) + DigitVal(s[Len(s)])

\* str(n) for an integer n
RECURSIVE NatToStr(_)
NatToStr(n) ==
    IF n < 10 THEN <<DigitChars[n + 1]>>
    ELSE NatToStr(n \div 10) \o <<DigitChars[(n % 10) + 1]>>

IntToStr(n) == IF n < 0 THEN <<"-">> \o NatToStr(0 - n) ELSE NatToStr(n)

(***************************************************************************)
(* json.loads.  A parsed value is a record of one shape for every JSON     *)
(* type: t names the type, n holds a number, s the characters of a string, *)
(* a the elements of a list and o the members of a dict in insertion       *)
(* order.  The texts drawn hold integers, strings without escapes, lists   *)
(* and dicts; literals (true, null) and fractions are not drawn.           *)
(***************************************************************************)
JNum(n) == [t |-> "num", n |-> n, s |-> <<>>, a |-> <<>>, o |-> <<>>]
JStr(s) == [t |-> "str", n |-> 0, s |-> s, a |-> <<>>, o |-> <<>>]
JArr(a) == [t |-> "arr", n |-> 0, s |-> <<>>, a |-> a, o |-> <<>>]
JObj(o) == [t |-> "obj", n |-> 0, s |-> <<>>, a |-> <<>>, o |-> o]

\* a string value given as a literal
JText(str) == JStr(Chars(str))

\* key in d, d[key] and d[key] = v for a dict d
HasKey(d, key) == \E i \in 1..Len(d.o) : d.o[i].k = key
Lookup(d, key) == d.o[CHOOSE i \in 1..Len(d.o) : d.o[i].k = key].v
PutMember(o, key, v) ==
    IF \E i \in 1..Len(o) : o[i].k = key
       THEN [i \in 1..Len(o) |-> IF o[i].k = key THEN [k |-> key, v |-> v] ELSE o[i]]
       ELSE Append(o, [k |-> key, v |-> v])
Put(d, key, v) == JObj(PutMember(d.o, key, v))

\* d.get(key, default)
Get(d, key, default) == IF HasKey(d, key) THEN Lookup(d, key) ELSE default

\* the truth value Python gives a parsed value
Truthy(v) ==
    CASE v.t = "num" -> v.n # 0
      [] v.t = "str" -> v.s # <<>>
      [] v.t = "arr" -> v.a # <<>>
      [] v.t = "obj" -> v.o # <<>>

ParseFail == [ok |-> FALSE, v |-> JNum(0), next |-> 0]
Parsed(v, next) == [ok |-> TRUE, v |-> v, next |-> next]

RECURSIVE SkipWs(_, _)
SkipWs(s, i) ==
    IF i <= Len(s) /\ s[i] \in WhiteSpace THEN SkipWs(s, i + 1) ELSE i

\* a string starting at the quote s[i]; strict mode rejects control characters
ParseString(s, i) ==
    LET closing == {j \in (i + 1)..Len(s) : s[j] = "\""}
    IN  IF closing = {} THEN ParseFail
        ELSE LET j == Min(closing)
                 body == SubSeq(s, i + 1, j - 1)
             IN  IF \E q \in 1..Len(body) : body[q] \in {"\t", "\n", "\r"}
                    THEN ParseFail
                    ELSE Parsed(JStr(body), j + 1)

RECURSIVE DigitsEnd(_, _)
DigitsEnd(s, i) ==
    IF i <= Len(s) /\ IsDigit(s[i]) THEN DigitsEnd(s, i + 1) ELSE i

\* an integer starting at s[i]: -?(0|[1-9][0-9]*)
ParseNumber(s, i) ==
    LET neg == s[i] = "-"
        b == IF neg THEN i + 1 ELSE i
    IN  IF b > Len(s) \/ ~IsDigit(s[b]) THEN ParseFail
        ELSE LET e == IF s[b] = "0" THEN b + 1 ELSE DigitsEnd(s, b)
                 m == ToInt(SubSeq(s, b, e - 1))
             IN  Parsed(JNum(IF neg THEN 0 - m ELSE m), e)

RECURSIVE ParseValue(_, _), ParseMembers(_, _, _), ParseElements(_, _, _)

ParseValue(s, i) ==
    IF i > Len(s) THEN ParseFail
    ELSE IF s[i] = "\"" THEN ParseString(s, i)
    ELSE IF s[i] = "{" THEN
        LET j == SkipWs(s, i + 1)
        IN  IF j <= Len(s) /\ s[j] = "}"
               THEN Parsed(JObj(<<>>), j + 1)
               ELSE ParseMembers(s, i + 1, <<>>)
    ELSE IF s[i] = "[" THEN
        LET j == SkipWs(s, i + 1)
        IN  IF j <= Len(s) /\ s[j] = "]"
               THEN Parsed(JArr(<<>>), j + 1)
               ELSE ParseElements(s, j, <<>>)
    ELSE IF IsDigit(s[i]) \/ s[i] = "-" THEN ParseNumber(s, i)
    ELSE ParseFail

\* the members of a dict from position i on, up to the closing brace
ParseMembers(s, i, acc) ==
    LET j == SkipWs(s, i)
    IN  IF j > Len(s) \/ s[j] # "\"" THEN ParseFail
        ELSE LET key == ParseString(s, j)
             IN  IF ~key.ok THEN ParseFail
                 ELSE LET c == SkipWs(s, key.next)
                      IN  IF c > Len(s) \/ s[c] # ":" THEN ParseFail
                          ELSE LET val == ParseValue(s, SkipWs(s, c + 1))
                               IN  IF ~val.ok THEN ParseFail
                                   ELSE LET e == SkipWs(s, val.next)
                                            acc2 == PutMember(acc, key.v.s, val.v)
                                        IN  IF e > Len(s) THEN ParseFail
                                            ELSE IF s[e] = "}" THEN Parsed(JObj(acc2), e + 1)
                                            ELSE IF s[e] = "," THEN ParseMembers(s, e + 1, acc2)
                                            ELSE ParseFail

\* the elements of a list from position i on, up to the closing bracket
ParseElements(s, i, acc) ==
    LET val == ParseValue(s, i)
    IN  IF ~val.ok THEN ParseFail
        ELSE LET e == SkipWs(s, val.next)
                 acc2 == Append(acc, val.v)
             IN  IF e > Len(s) THEN ParseFail
                 ELSE IF s[e] = "]" THEN Parsed(JArr(acc2), e + 1)
                 ELSE IF s[e] = "," THEN ParseElements(s, SkipWs(s, e + 1), acc2)
                 ELSE ParseFail

\* json.loads(s): ok is FALSE where json.loads raises JSONDecodeError
JsonLoads(s) ==
    LET val == ParseValue(s, SkipWs(s, 1))
    IN  IF ~val.ok THEN ParseFail
        ELSE IF SkipWs(s, val.next) = Len(s) + 1 THEN val
        ELSE ParseFail

(***************************************************************************)
(* match_policy_in_csv.  csv_content is modelled by the rows DictReader    *)
(* yields from it, each with its "Insurance Company" and "Base Plan Name"  *)
(* fields; a score is the exact fraction num / den.                        *)
(***************************************************************************)
RECURSIVE CommonLen(_, _, _, _)
CommonLen(a, i, b, j) ==
    IF i <= Len(a) /\ j <= Len(b) /\ a[i] = b[j]
       THEN 1 + CommonLen(a, i + 1, b, j + 1)
       ELSE 0

\* SequenceMatcher.find_longest_match without junk: the longest block
\* a[i..i+k-1] = b[j..j+k-1], the earliest in a and then in b among the longest
LongestMatch(a, b) ==
    LET pairs == (1..Len(a)) \X (1..Len(b))
        size(p) == CommonLen(a, p[1], b, p[2])
        k == IF pairs = {} THEN 0 ELSE Max({size(p) : p \in pairs})
        longest == {p \in pairs : size(p) = k}
        i == Min({p[1] : p \in longest})
        j == Min({p[2] : p \in {q \in longest : q[1] = i}})
    IN  IF k = 0 THEN [i |-> 0, j |-> 0, k |-> 0] ELSE [i |-> i, j |-> j, k |-> k]

\* the sum of the sizes of SequenceMatcher.get_matching_blocks
RECURSIVE MatchingSize(_, _)
MatchingSize(a, b) ==
    LET m == LongestMatch(a, b)
    IN  IF m.k = 0 THEN 0
        ELSE m.k + MatchingSize(SubSeq(a, 1, m.i - 1), SubSeq(b, 1, m.j - 1))
                 + MatchingSize(SubSeq(a, m.i + m.k, Len(a)), SubSeq(b, m.j + m.k, Len(b)))

Fraction(num, den) == [num |-> num, den |-> den]
FractionGreater(x, y) == x.num * y.den > y.num * x.den

\* SequenceMatcher(None, a, b).ratio(): 2.0 * matches / length, 1.0 for no length
Ratio(a, b) ==
    IF Len(a) + Len(b) = 0 THEN Fraction(1, 1)
    ELSE Fraction(2 * MatchingSize(a, b), Len(a) + Len(b))

\* ratio += 0.1
Boost(x) == Fraction(10 * x.num + x.den, 10 * x.den)

\* the score of a row's plan name against the normalized query plan name
PlanScore(norm_plan, csv_plan) ==
    IF Contains(csv_plan, norm_plan)
       THEN Boost(Ratio(norm_plan, csv_plan))
       ELSE Ratio(norm_plan, csv_plan)

\* the company filter of line 69: TRUE when the row is kept
CompanyMatches(norm_company, csv_company) ==
    Contains(csv_company, norm_company) \/ Contains(norm_company, csv_company)

\* "if ratio > highest_ratio"
BeatsOrTies(ratio, highest_ratio) == ~FractionGreater(highest_ratio, ratio)

Beats(ratio, highest_ratio) == FractionGreater(ratio, highest_ratio)

\* "if highest_ratio > 0.5"
Accepted(highest_ratio) == FractionGreater(highest_ratio, Fraction(1, 2))

NoRow == [company |-> <<"-">>, plan |-> <<"-">>, found |-> FALSE]
Row(company_field, plan_field) == [company |-> company_field, plan |-> plan_field, found |-> TRUE]

\* the for-loop over the rows from position i on
RECURSIVE MatchLoop(_, _, _, _, _, _)
MatchLoop(rows, i, norm_company, norm_plan, best_match, highest_ratio) ==
    IF i > Len(rows) THEN [best_match |-> best_match, highest_ratio |-> highest_ratio]
    ELSE LET csv_company == Lower(rows[i].company)
             csv_plan == Lower(rows[i].plan)
             ratio == PlanScore(norm_plan, csv_plan)
         IN  IF CompanyMatches(norm_company, csv_company) /\ Beats(ratio, highest_ratio)
                THEN MatchLoop(rows, i + 1, norm_company, norm_plan, rows[i], ratio)
                ELSE MatchLoop(rows, i + 1, norm_company, norm_plan, best_match, highest_ratio)

match_policy_in_csv(company_name, plan_name, rows) ==
    IF plan_name = <<>> \/ rows = <<>> THEN NoRow
    ELSE LET r == MatchLoop(rows, 1, Strip(Lower(company_name)), Strip(Lower(plan_name)),
                            NoRow, Fraction(0, 1))
         IN  IF Accepted(r.highest_ratio) THEN r.best_match ELSE NoRow

(***************************************************************************)
(* parse_date                                                              *)
(***************************************************************************)
NoDate == [ok |-> FALSE, year |-> 0, month |-> 0, day |-> 0]

MonthAbbr == << Chars("jan"), Chars("feb"), Chars("mar"), Chars("apr"),
                Chars("may"), Chars("jun"), Chars("jul"), Chars("aug"),
                Chars("sep"), Chars("oct"), Chars("nov"), Chars("dec") >>

IsLeap(y) == (y % 4 = 0 /\ y % 100 # 0) \/ y % 400 = 0

DaysInMonth(y, m) ==
    IF m = 2 THEN (IF IsLeap(y) THEN 29 ELSE 28)
    ELSE IF m \in {4, 6, 9, 11} THEN 30 ELSE 31

AllDigits(t) == \A i \in 1..Len(t) : IsDigit(t[i])

\* the directive %d: 3[0-1] | [1-2]\d | 0[1-9] | [1-9] | " "[1-9]
IsDayField(t) ==
    \/ Len(t) = 1 /\ IsDigit(t[1]) /\ t[1] # "0"
    \/ /\ Len(t) = 2
       /\ \/ t[1] = "3" /\ t[2] \in {"0", "1"}
          \/ t[1] \in {"1", "2"} /\ IsDigit(t[2])
          \/ t[1] \in {"0", " "} /\ IsDigit(t[2]) /\ t[2] # "0"

\* the directive %m: 1[0-2] | 0[1-9] | [1-9]
IsMonthField(t) ==
    \/ Len(t) = 1 /\ IsDigit(t[1]) /\ t[1] # "0"
    \/ /\ Len(t) = 2
       /\ \/ t[1] = "1" /\ t[2] \in {"0", "1", "2"}
          \/ t[1] = "0" /\ IsDigit(t[2]) /\ t[2] # "0"

\* the directive %Y: four digits
IsYearField(t) == Len(t) = 4 /\ AllDigits(t)

\* the directive %b: an abbreviated month name, in any letter case
IsMonthName(t) == \E m \in 1..12 : MonthAbbr[m] = Lower(t)
MonthOfName(t) == CHOOSE m \in 1..12 : MonthAbbr[m] = Lower(t)

FieldVal(t) == ToInt(IF t[1] = " " THEN Tail(t) ELSE t)

\* datetime(year, month, day) raises ValueError outside the calendar
MakeDate(y, m, d) ==
    IF y >= 1 /\ d >= 1 /\ d <= DaysInMonth(y, m)
       THEN [ok |-> TRUE, year |-> y, month |-> m, day |-> d]
       ELSE NoDate

\* the fields of a string under a format whose directives are separated by
\* sep; a blank in a format matches any run of whitespace
Fields(s, sep) ==
    IF sep = " "
       THEN LET ws == [i \in 1..Len(s) |-> IF s[i] \in WhiteSpace THEN " " ELSE s[i]]
            IN  SelectSeq(Split(ws, <<" ">>), LAMBDA f : f # <<>>)
       ELSE Split(s, <<sep>>)

\* datetime.strptime(s, fmt) for fmt in ("dmY", "Ymd", "dbY") and a separator
Strptime(s, order, sep) ==
    LET f == Fields(s, sep)
    IN  IF Len(f) # 3 THEN NoDate
        ELSE CASE order = "dmY" ->
                    IF IsDayField(f[1]) /\ IsMonthField(f[2]) /\ IsYearField(f[3])
                       THEN MakeDate(FieldVal(f[3]), FieldVal(f[2]), FieldVal(f[1]))
                       ELSE NoDate
               [] order = "Ymd" ->
                    IF IsYearField(f[1]) /\ IsMonthField(f[2]) /\ IsDayField(f[3])
                       THEN MakeDate(FieldVal(f[1]), FieldVal(f[2]), FieldVal(f[3]))
                       ELSE NoDate
               [] order = "dbY" ->
                    IF IsDayField(f[1]) /\ IsMonthName(f[2]) /\ IsYearField(f[3])
                       THEN MakeDate(FieldVal(f[3]), MonthOfName(f[2]), FieldVal(f[1]))
                       ELSE NoDate

\* the formats of parse_date in the order tried
DateFormats ==
    << [order |-> "dmY", sep |-> "/"], [order |-> "dmY", sep |-> "-"],
       [order |-> "Ymd", sep |-> "-"], [order |-> "dbY", sep |-> "-"],
       [order |-> "dbY", sep |-> " "] >>

RECURSIVE TryFormats(_, _)
TryFormats(s, k) ==
    IF k > Len(DateFormats) THEN NoDate
    ELSE LET d == Strptime(s, DateFormats[k].order, DateFormats[k].sep)
         IN  IF d.ok THEN d ELSE TryFormats(s, k + 1)

parse_date(date_str) == TryFormats(Strip(date_str), 1)

(***************************************************************************)
(* extract_policy: salvage of the model text                               *)
(***************************************************************************)
Fence == Chars("~~~")
FenceJson == Chars("~~~json")

Member(name, v) == [k |-> Chars(name), v |-> v]

\* the safe default of extract_policy
ExtractDefault ==
    JObj(<< Member("company", JText("Unknown")),
            Member("plan", JText("Unknown")),
            Member("premium", JText("0")),
            Member("coverage", JText("0")),
            Member("policy_details",
                   JObj(<< Member("start_date", JStr(<<>>)),
                           Member("vintage", JText("Unknown")) >>)),
            Member("sum_insured",
                   JObj(<< Member("total", JText("0")),
                           Member("components", JArr(<<>>)) >>)),
            Member("policy_holders", JArr(<<>>)),
            Member("features_found", JObj(<<>>)),
            Member("comprehensive_findings", JText("Could not extract data.")) >>)

\* "clean json": strip, then keep the interior of the first fenced block
ExtractClean(response_text) ==
    LET text == Strip(response_text)
    IN  IF Contains(text, FenceJson)
           THEN Strip(Split(Split(text, FenceJson)[2], Fence)[1])
        ELSE IF Contains(text, Fence)
           THEN Strip(Split(Split(text, Fence)[2], Fence)[1])
        ELSE text

\* the fallback of both endpoints: parse text[start:end] between the first
\* opening and the last closing brace; ok is FALSE where the code takes its
\* except branch
BraceSubstring(text) ==
    LET start == Find(text, <<"{">>)
        end == RFind(text, <<"}">>) + 1
    IN  IF start # -1 /\ end # -1
           THEN JsonLoads(Slice(text, start, end))
           ELSE ParseFail

\* the value extract_policy goes on with, and the step that produced it
ExtractSalvage(response_text) ==
    LET text == ExtractClean(response_text)
        strict == JsonLoads(text)
        sub == BraceSubstring(text)
    IN  IF strict.ok THEN [step |-> "strict", data |-> strict.v]
        ELSE IF sub.ok THEN [step |-> "substring", data |-> sub.v]
        ELSE [step |-> "default", data |-> ExtractDefault]

(***************************************************************************)
(* extract_policy: recomputed ages and sum insured.  A step yields ok =    *)
(* FALSE where the code raises (TypeError, AttributeError, ValueError),    *)
(* which the handler turns into an HTTP 500.                               *)
(***************************************************************************)
Done(v) == [ok |-> TRUE, data |-> v]
Raised == [ok |-> FALSE, data |-> JNum(0)]

\* a date as datetime.now() gives it
Date(y, m, d) == [year |-> y, month |-> m, day |-> d]

\* (a, b) < (c, d) on tuples
TupleLess(a, b, c, d) == a < c \/ (a = c /\ b < d)

PreciseAgeYearsOnly(now, dob) == now.year - dob.year

PreciseAge(now, dob) ==
    now.year - dob.year
        - (IF TupleLess(now.month, now.day, dob.month, dob.day) THEN 1 ELSE 0)

PersonRaises(person) ==
    \/ person.t # "obj"
    \/ LET dob_str == Get(person, Chars("dob"), JStr(<<>>))
       IN  Truthy(dob_str) /\ dob_str.t # "str"

RecomputePersonAgeOnly(person, now) ==
    LET dob_str == Get(person, Chars("dob"), JStr(<<>>))
    IN  IF Truthy(dob_str) /\ parse_date(dob_str.s).ok
           THEN JObj(<<[k |-> Chars("age"),
                        v |-> JStr(IntToStr(PreciseAge(now, parse_date(dob_str.s))))]>>)
           ELSE person

RecomputePerson(person, now) ==
    LET dob_str == Get(person, Chars("dob"), JStr(<<>>))
    IN  IF Truthy(dob_str) /\ parse_date(dob_str.s).ok
           THEN Put(person, Chars("age"),
                    JStr(IntToStr(PreciseAge(now, parse_date(dob_str.s)))))
           ELSE person

\* lines 241-252
RecomputeAges(data, now) ==
    LET key == Chars("policy_holders")
    IN  CASE data.t = "num" -> Raised
          [] data.t = "str" -> IF Contains(data.s, key) THEN Raised ELSE Done(data)
          [] data.t = "arr" ->
                IF \E i \in 1..Len(data.a) : data.a[i] = JStr(key)
                   THEN Raised ELSE Done(data)
          [] data.t = "obj" ->
                IF HasKey(data, key) /\ Lookup(data, key).t = "arr"
                   THEN LET holders == Lookup(data, key).a
                        IN  IF \E i \in 1..Len(holders) : PersonRaises(holders[i])
                               THEN Raised
                               ELSE Done(Put(data, key,
                                        JArr([i \in 1..Len(holders) |->
                                                 RecomputePerson(holders[i], now)])))
                   ELSE Done(data)

\* str(v) of a number or a string
PyStr(v) ==
    CASE v.t = "num" -> IntToStr(v.n)
      [] v.t = "str" -> v.s

\* The character ^ stands for a superscript digit (U+00B2 and the like), for
\* which str.isdigit() is true although int() does not accept it.
SuperDigit == "^"
StrIsDigit(c) == IsDigit(c) \/ c = SuperDigit

NoNumber == [ok |-> FALSE, n |-> 0]
Number(n) == [ok |-> TRUE, n |-> n]

\* int(clean): ValueError unless every character is a decimal digit
PyInt(clean) == IF AllDigits(clean) THEN Number(ToInt(clean)) ELSE NoNumber

\* the part of s kept by "take only the integer part"
IntegerPart(s) == IF Contains(s, <<".">>) THEN Split(s, <<".">>)[1] ELSE s

extract_number(val_str) ==
    IF ~Truthy(val_str) THEN Number(0)
    ELSE LET s == IntegerPart(Replace(Strip(PyStr(val_str)), <<",">>, <<>>))
             clean == SelectSeq(s, StrIsDigit)
         IN  IF clean = <<>> THEN Number(0) ELSE PyInt(clean)

RECURSIVE IndianGroups(_, _)
IndianGroups(dic, groups) ==
    IF Len(dic) > 2
       THEN IndianGroups(SubSeq(dic, 1, Len(dic) - 2),
                         <<SubSeq(dic, Len(dic) - 1, Len(dic))>> \o groups)
       ELSE <<dic>> \o groups

format_indian_currencyWithDots(n) ==
    LET s == IntToStr(n)
    IN  IF Len(s) <= 3 THEN s
        ELSE LET dic == SubSeq(s, 1, Len(s) - 3)
                 last_3 == SubSeq(s, Len(s) - 2, Len(s))
             IN  Join(IndianGroups(dic, <<>>), <<".">>) \o <<".">> \o last_3

format_indian_currency(n) ==
    LET s == IntToStr(n)
    IN  IF Len(s) <= 3 THEN s
        ELSE LET dic == SubSeq(s, 1, Len(s) - 3)
                 last_3 == SubSeq(s, Len(s) - 2, Len(s))
             IN  Join(IndianGroups(dic, <<>>), <<",">>) \o <<",">> \o last_3

HasPercent(label) == Contains(label, <<"%">>) \/ Contains(label, Chars("percent"))
IsDeductible(label) == Contains(label, Chars("deductible"))

\* total_val after adding or subtracting one amount
AddAmountAlways(total_val, val, label) == total_val + val

AddAmount(total_val, val, label) ==
    IF IsDeductible(label) THEN total_val - val ELSE total_val + val

ComponentRaises(comp) ==
    \/ comp.t # "obj"
    \/ ~extract_number(Get(comp, Chars("value"), JText("0"))).ok
    \/ Get(comp, Chars("label"), JStr(<<>>)).t # "str"

\* the for-loop over the components from position i on: the running total
\* and the list valid_components
RECURSIVE SumLoop(_, _, _, _)
SumLoop(components, i, total_val, valid_components) ==
    IF i > Len(components)
       THEN [total_val |-> total_val, valid_components |-> valid_components]
       ELSE LET comp == components[i]
                val == extract_number(Get(comp, Chars("value"), JText("0"))).n
                label == Lower(Get(comp, Chars("label"), JStr(<<>>)).s)
            IN  IF val > 0 /\ ~HasPercent(label)
                   THEN SumLoop(components, i + 1, AddAmount(total_val, val, label),
                                Append(valid_components,
                                       Put(comp, Chars("value"),
                                           JStr(format_indian_currency(val)))))
                   ELSE SumLoop(components, i + 1, total_val, valid_components)

\* "key in v" for a parsed value v that is not a number
PyIn(v, key) ==
    CASE v.t = "str" -> Contains(v.s, key)
      [] v.t = "arr" -> \E i \in 1..Len(v.a) : v.a[i] = JStr(key)
      [] v.t = "obj" -> HasKey(v, key)

\* what "for comp in components" iterates over
Iterated(components) ==
    CASE components.t = "arr" -> components.a
      [] components.t = "str" -> [i \in 1..Len(components.s) |-> JStr(<<components.s[i]>>)]
      [] components.t = "obj" -> [i \in 1..Len(components.o) |-> JStr(components.o[i].k)]

\* lines 255-306
RecomputeTotal(data) ==
    LET si_key == Chars("sum_insured")
        c_key == Chars("components")
    IN  IF ~PyIn(data, si_key) THEN Done(data)
        ELSE IF data.t # "obj" THEN Raised
        ELSE LET si == Lookup(data, si_key)
             IN  IF si.t = "num" THEN Raised
                 ELSE IF ~PyIn(si, c_key) THEN Done(data)
                 ELSE IF si.t # "obj" THEN Raised
                 ELSE IF Lookup(si, c_key).t = "num" THEN Raised
                 ELSE LET components == Iterated(Lookup(si, c_key))
                      IN  IF \E i \in 1..Len(components) : ComponentRaises(components[i])
                             THEN Raised
                             ELSE LET r == SumLoop(components, 1, 0, <<>>)
                                      si1 == Put(si, c_key, JArr(r.valid_components))
                                      si2 == Put(si1, Chars("total"),
                                                 JStr(format_indian_currency(r.total_val)))
                                  IN  Done(Put(data, si_key, si2))

\* What a handler hands back: status "returned" with HTTP 200 and the
\* document, or "failed" with the HTTPException's code; salvaged is the value
\* the salvage step ended with (ok = FALSE when it raised instead) and step
\* the rung of the salvage ladder that produced it.  detail is the detail of
\* the HTTPException: its wording and the candidate whose exception it
\* describes ("" when it describes none).
NoDetail == [msg |-> "", cause |-> ""]
Pending ==
    [status |-> "pending", code |-> 0, step |-> "none",
     salvaged |-> ParseFail, data |-> JNum(0), detail |-> NoDetail]
Returned(step, salvaged, data) ==
    [status |-> "returned", code |-> 200, step |-> step,
     salvaged |-> Parsed(salvaged, 0), data |-> data, detail |-> NoDetail]
\* an exception of the processing, wrapped by the handler's outer except
Failed(code, step, salvaged) ==
    [status |-> "failed", code |-> code, step |-> step,
     salvaged |-> salvaged, data |-> JNum(0),
     detail |-> [msg |-> "processing error", cause |-> ""]]
\* the exception of generate_content_with_fallback, turned into a failure
FailedCall(code, msg, cause) ==
    [status |-> "failed", code |-> code, step |-> "none",
     salvaged |-> ParseFail, data |-> JNum(0),
     detail |-> [msg |-> msg, cause |-> cause]]

\* lines 202-312 of extract_policy for the text of a successful response
ExtractResult(text, now) ==
    LET salvaged == ExtractSalvage(text)
        aged == RecomputeAges(salvaged.data, now)
        summed == IF aged.ok THEN RecomputeTotal(aged.data) ELSE Raised
    IN  IF summed.ok
           THEN Returned(salvaged.step, salvaged.data, summed.data)
           ELSE Failed(500, salvaged.step, Parsed(salvaged.data, 0))

(***************************************************************************)
(* compare_policy: salvage of the model text (lines 652-724).  The score   *)
(* written into a strictly parsed result and the ranking of the            *)
(* recommendations act on the salvaged value afterwards.                   *)
(***************************************************************************)
CompareDefault(company_name) ==
    JObj(<< Member("pros", JArr(<<JText("Could not analyze policy details.")>>)),
            Member("cons", JArr(<<JText("AI response was not in expected format.")>>)),
            Member("current_policy_stats",
                   JObj(<< Member("company", company_name),
                           Member("csr", JText("N/A")),
                           Member("csr_rank", JText("N/A")),
                           Member("solvency", JText("N/A")),
                           Member("solvency_rank", JText("N/A")),
                           Member("complaints", JText("N/A")),
                           Member("complaints_rank", JText("N/A")) >>)),
            Member("recommendations", JArr(<<>>)) >>)

CompareClean(text) == Strip(Replace(Replace(text, FenceJson, <<>>), Fence, <<>>))

\* len(result[key]) at lines 663 and 701 raises TypeError for a number
LenRaises(result, key) == HasKey(result, Chars(key)) /\ Lookup(result, Chars(key)).t = "num"

CompareSalvage(text, company_name) ==
    IF text = <<>> THEN Failed(500, "none", ParseFail)
    ELSE LET clean == CompareClean(text)
             strict == JsonLoads(clean)
             sub == BraceSubstring(clean)
         IN  IF strict.ok
                THEN IF strict.v.t # "obj" THEN Failed(500, "strict", ParseFail)
                     ELSE IF LenRaises(strict.v, "feature_analysis")
                             \/ LenRaises(strict.v, "recommendations")
                        THEN Failed(500, "strict", Parsed(strict.v, 0))
                     ELSE Returned("strict", strict.v, strict.v)
             ELSE IF sub.ok THEN Returned("substring", sub.v, sub.v)
             ELSE Returned("default", CompareDefault(company_name),
                           CompareDefault(company_name))

(***************************************************************************)
(* compare_policy: the tenure computed from the request body before the    *)
(* model is called (lines 344-358)                                         *)
(***************************************************************************)
NotComputed == Chars("(not computed)")
Unknown == Chars("Unknown")

TenureText(years, months) ==
    IntToStr(years) \o Chars(" Years ") \o IntToStr(months) \o Chars(" Months")

Tenure(now, inception_date) ==
    LET years == now.year - inception_date.year
        months == now.month - inception_date.month
    IN  IF months < 0 THEN TenureText(years - 1, months + 12)
        ELSE TenureText(years, months)

\* parse_date calls .strip() on its argument: AttributeError unless a str
TenureRaises(inception_date_str) ==
    Truthy(inception_date_str) /\ inception_date_str.t # "str"

CalculatedTenure(inception_date_str, now) ==
    IF Truthy(inception_date_str) /\ parse_date(inception_date_str.s).ok
       THEN Tenure(now, parse_date(inception_date_str.s))
       ELSE Unknown

(***************************************************************************)
(* compare_policy: the score written into a strictly parsed result (lines  *)
(* 662-698).  A float is held in tenths.                                   *)
(***************************************************************************)
JFloat(tenths) == [t |-> "float", n |-> tenths, s |-> <<>>, a |-> <<>>, o |-> <<>>]

\* what dict.get returns for a missing key
PyNone == [t |-> "none", n |-> 0, s |-> <<>>, a |-> <<>>, o |-> <<>>]

\* round(num / den * 10, 1) in tenths, for num >= 0 and den > 0: the
\* nearest tenth, the even one of two equally near
RoundTenths(num, den) ==
    LET q == (100 * num) \div den
        r == (100 * num) % den
    IN  IF 2 * r < den THEN q
        ELSE IF 2 * r > den THEN q + 1
        ELSE IF q % 2 = 0 THEN q ELSE q + 1

\* what "for f in features" yields
FeatureRecords(features) ==
    CASE features.t = "arr" -> features.a
      [] features.t = "str" -> [i \in 1..Len(features.s) |-> JStr(<<features.s[i]>>)]
      [] features.t = "obj" -> [i \in 1..Len(features.o) |-> JStr(features.o[i].k)]

\* f.get raises AttributeError for an entry that is not a dict
ScoreRaises(features) ==
    \E i \in 1..Len(FeatureRecords(features)) : FeatureRecords(features)[i].t # "obj"

InCategory(f, category) == Get(f, Chars("category"), PyNone) = JText(category)
IsPositive(f) == Get(f, Chars("status"), PyNone) = JText("Positive")

CalcScore(features) ==
    LET non_negotiable == SelectSeq(features, LAMBDA f : InCategory(f, "Non-Negotiable Benefits"))
        must_have == SelectSeq(features, LAMBDA f : InCategory(f, "Must Have"))
        pos_nn == Len(SelectSeq(non_negotiable, IsPositive))
        pos_mh == Len(SelectSeq(must_have, IsPositive))
        total_relevant == Len(non_negotiable) + Len(must_have)
        total_positive == pos_nn + pos_mh
    IN  IF total_relevant > 0 THEN JFloat(RoundTenths(total_positive, total_relevant))
        ELSE JFloat(0)

\* lines 662-698, for a result that is a dict
ScoreStep(result) ==
    IF ~HasKey(result, Chars("feature_analysis")) THEN result
    ELSE LET features == Lookup(result, Chars("feature_analysis"))
         IN  IF ScoreRaises(features)
                THEN IF HasKey(result, Chars("product_score")) THEN result
                     ELSE Put(result, Chars("product_score"), JFloat(0))
                ELSE Put(result, Chars("product_score"),
                         CalcScore(FeatureRecords(features)))

(***************************************************************************)
(* compare_policy: pros and cons (lines 728-735)                           *)
(***************************************************************************)
\* v[:n] of a list or a str
Prefix(v, n) ==
    CASE v.t = "arr" -> JArr(SubSeq(v.a, 1, Min({n, Len(v.a)})))
      [] v.t = "str" -> JStr(SubSeq(v.s, 1, Min({n, Len(v.s)})))

PyLen(v) ==
    CASE v.t = "arr" -> Len(v.a)
      [] v.t = "str" -> Len(v.s)

\* slicing raises TypeError for a number and for a dict
SliceRaises(v) == v.t \notin {"arr", "str"}

ProsConsRaises(result) ==
    /\ HasKey(result, Chars("pros"))
    /\ HasKey(result, Chars("cons"))
    /\ SliceRaises(Lookup(result, Chars("pros"))) \/ SliceRaises(Lookup(result, Chars("cons")))

ProsConsStepNoCut(result) ==
    IF HasKey(result, Chars("pros")) /\ HasKey(result, Chars("cons"))
       THEN LET pros == Prefix(Lookup(result, Chars("pros")), 7)
                cons == Prefix(Lookup(result, Chars("cons")), 7)
            IN  Put(Put(result, Chars("pros"), pros), Chars("cons"), cons)
       ELSE result

ProsConsStep(result) ==
    IF HasKey(result, Chars("pros")) /\ HasKey(result, Chars("cons"))
       THEN LET pros == Prefix(Lookup(result, Chars("pros")), 7)
                cons == Prefix(Lookup(result, Chars("cons")), 7)
                cut == IF PyLen(pros) > PyLen(cons) THEN Prefix(pros, PyLen(cons)) ELSE pros
            IN  Put(Put(result, Chars("pros"), cut), Chars("cons"), cons)
       ELSE result

(***************************************************************************)
(* compare_policy: the recommendations sorted by claims-paid ratio (lines  *)
(* 738-770).  The file is the list of rows csv.reader yields, cells being  *)
(* texts; a ratio is held in hundredths and drawn with at most two         *)
(* decimals.                                                               *)
(***************************************************************************)
NoFile == [found |-> FALSE, rows |-> <<>>]
File(rows) == [found |-> TRUE, rows |-> rows]

NoFloat == [ok |-> FALSE, n |-> 0]

\* float(ratio_str) for plain decimal writings: ValueError otherwise
FloatOf(ratio_str) ==
    LET signed == ratio_str # <<>> /\ ratio_str[1] \in {"-", "+"}
        body == IF signed THEN Tail(ratio_str) ELSE ratio_str
        dot == Find(body, <<".">>)
        whole == IF dot = -1 THEN body ELSE Slice(body, 0, dot)
        frac == IF dot = -1 THEN <<>> ELSE Slice(body, dot + 1, Len(body))
        cents == IF Len(frac) = 0 THEN 0
                 ELSE IF Len(frac) = 1 THEN 10 * ToInt(frac) ELSE ToInt(frac)
        size == 100 * ToInt(whole) + cents
    IN  IF AllDigits(whole \o frac) /\ whole \o frac # <<>> /\ Len(frac) <= 2
           THEN [ok |-> TRUE, n |-> IF signed /\ ratio_str[1] = "-" THEN 0 - size ELSE size]
           ELSE NoFloat

\* the cleaning applied to a company name before it is looked up
CleanName(name) ==
    Strip(Replace(Replace(name, Chars("general insurance"), <<>>), Chars("insurance"), <<>>))

\* the for-loop over the rows from position i on, filling csr_map
RECURSIVE BuildCsrMap(_, _, _)
BuildCsrMap(rows, i, csr_map) ==
    IF i > Len(rows) THEN csr_map
    ELSE LET row == rows[i]
         IN  IF Len(row) > 1
                THEN LET name_key == CleanName(Lower(Strip(row[1])))
                         ratio == FloatOf(Strip(Replace(row[2], <<"%">>, <<>>)))
                     IN  BuildCsrMap(rows, i + 1,
                                     IF ratio.ok THEN PutMember(csr_map, name_key, ratio.n)
                                     ELSE csr_map)
                ELSE BuildCsrMap(rows, i + 1, csr_map)

\* csr_map after the two header rows were skipped
CsrMap(rows) == BuildCsrMap(rows, 3, <<>>)

get_csr_scoreExactOnly(rec, csr_map) ==
    LET c_name == CleanName(Lower(Get(rec, Chars("company"), JStr(<<>>)).s))
        exact == {i \in 1..Len(csr_map) : csr_map[i].k = c_name}
    IN  IF exact # {} THEN csr_map[Min(exact)].v ELSE 0

get_csr_score(rec, csr_map) ==
    LET c_name == CleanName(Lower(Get(rec, Chars("company"), JStr(<<>>)).s))
        exact == {i \in 1..Len(csr_map) : csr_map[i].k = c_name}
        fuzzy == {i \in 1..Len(csr_map) :
                     Contains(c_name, csr_map[i].k) \/ Contains(csr_map[i].k, c_name)}
    IN  IF exact # {} THEN csr_map[Min(exact)].v
        ELSE IF fuzzy # {} THEN csr_map[Min(fuzzy)].v
        ELSE 0

\* rec.get and .lower() raise AttributeError for an entry that is not a
\* dict or whose company is not a str
KeyRaises(rec) ==
    rec.t # "obj" \/ Get(rec, Chars("company"), JStr(<<>>)).t # "str"

\* list.sort(key, reverse=True): x goes behind every entry whose key is not
\* smaller than its own
InsertDescending(sorted, x, csr_map) ==
    LET smaller == {j \in 1..Len(sorted) :
                       get_csr_score(sorted[j], csr_map) < get_csr_score(x, csr_map)}
        at == IF smaller = {} THEN Len(sorted) + 1 ELSE Min(smaller)
    IN  SubSeq(sorted, 1, at - 1) \o <<x>> \o SubSeq(sorted, at, Len(sorted))

RECURSIVE SortDescending(_, _, _)
SortDescending(recs, n, csr_map) ==
    IF n = 0 THEN <<>>
    ELSE InsertDescending(SortDescending(recs, n - 1, csr_map), recs[n], csr_map)

\* lines 738-770: nothing is sorted when the file is missing or has no two
\* header rows, or when a key cannot be computed
RankStep(result, file) ==
    LET key == Chars("recommendations")
    IN  IF ~file.found \/ Len(file.rows) < 2 THEN result
        ELSE IF HasKey(result, key) /\ Lookup(result, key).t = "arr"
           THEN LET recs == Lookup(result, key).a
                IN  IF \E i \in 1..Len(recs) : KeyRaises(recs[i]) THEN result
                    ELSE Put(result, key,
                             JArr(SortDescending(recs, Len(recs), CsrMap(file.rows))))
        ELSE result

\* lines 659-698: only a strictly parsed result is scored
ScoredResult(salvaged) ==
    IF salvaged.step = "strict" THEN ScoreStep(salvaged.data) ELSE salvaged.data

\* lines 726-772 for the salvaged, scored result
RankedResult(salvaged, scored, file) ==
    IF ProsConsRaises(scored) THEN Failed(500, salvaged.step, salvaged.salvaged)
    ELSE Returned(salvaged.step, salvaged.salvaged.v,
                  RankStep(ProsConsStep(scored), file))

\* lines 659-772 for the outcome of the salvage
AfterSalvage(salvaged, file) ==
    IF salvaged.status = "failed" THEN salvaged
    ELSE RankedResult(salvaged, ScoredResult(salvaged), file)

\* lines 652-772 of compare_policy for the text of a successful response
CompareResult(text, company_name, file) ==
    AfterSalvage(CompareSalvage(text, company_name), file)

(***************************************************************************)
(* generate_content_with_fallback                                          *)
(***************************************************************************)
MODEL_CANDIDATES ==
    << "gemini-2.0-flash-exp", "gemini-1.5-pro", "gemini-1.5-flash",
       "gemini-2.5-flash", "gemini-2.5-pro", "gemini-3.0-flash",
       "gemini-2.5-flash-lite" >>

NumCandidates == Len(MODEL_CANDIDATES)

NoException == [kind |-> "none", model |-> ""]

\* the response object a candidate returns, and the exception it throws
ResponseOf(model) == [kind |-> "response", model |-> model]
ExceptionOf(model) == [kind |-> "exception", model |-> model]

\* config_params as built at the top of every loop iteration: the JSON
\* mime type hint, the kwargs merged in, the hint popped when tools are set
ConfigParamsKeepHint(hasTools) ==
    [response_mime_type |-> TRUE, tools |-> hasTools, temperature |-> TRUE]

ConfigParams(hasTools) ==
    [response_mime_type |-> ~hasTools, tools |-> hasTools, temperature |-> TRUE]

FbInit ==
    /\ outcomes \in [1..NumCandidates -> {"ok", "fail"}]
    /\ tools \in BOOLEAN
    /\ idx = 1
    /\ attempts = <<>>
    /\ last_exception = NoException
    /\ fb = "running"
    /\ response = NoException

\* the except branch's assignment
RecordFailureKeepFirst(prev, e) == IF prev = NoException THEN e ELSE prev

RecordFailure(prev, e) == e

\* one loop iteration whose generate_content call returns
AttemptSucceedsKeepGoing ==
    /\ fb = "running"
    /\ idx <= NumCandidates
    /\ outcomes[idx] = "ok"
    /\ attempts' = Append(attempts,
                     [model |-> MODEL_CANDIDATES[idx], config |-> ConfigParams(tools)])
    /\ response' = ResponseOf(MODEL_CANDIDATES[idx])
    /\ idx' = idx + 1
    /\ fb' = IF idx = NumCandidates THEN "returned" ELSE "running"
    /\ UNCHANGED <<outcomes, tools, last_exception, reqVars, matchVars>>

AttemptSucceeds ==
    /\ fb = "running"
    /\ idx <= NumCandidates
    /\ outcomes[idx] = "ok"
    /\ attempts' = Append(attempts,
                     [model |-> MODEL_CANDIDATES[idx], config |-> ConfigParams(tools)])
    /\ fb' = "returned"
    /\ response' = ResponseOf(MODEL_CANDIDATES[idx])
    /\ UNCHANGED <<outcomes, tools, idx, last_exception, reqVars, matchVars>>

\* one loop iteration whose generate_content call throws; after the last
\* candidate the loop ends and last_exception is raised
AttemptFails ==
    /\ fb = "running"
    /\ idx <= NumCandidates
    /\ outcomes[idx] = "fail"
    /\ attempts' = Append(attempts,
                     [model |-> MODEL_CANDIDATES[idx], config |-> ConfigParams(tools)])
    /\ last_exception' = RecordFailure(last_exception, ExceptionOf(MODEL_CANDIDATES[idx]))
    /\ idx' = idx + 1
    /\ IF idx = NumCandidates
          THEN /\ fb' = "raised"
               /\ response' = last_exception'
          ELSE /\ fb' = "running"
               /\ response' = response
    /\ UNCHANGED <<outcomes, tools, reqVars, matchVars>>

FbNext == AttemptSucceeds \/ AttemptFails

FbIdle ==
    /\ outcomes = [i \in 1..NumCandidates |-> "ok"]
    /\ tools = FALSE
    /\ idx = 1
    /\ attempts = <<>>
    /\ last_exception = NoException
    /\ fb = "idle"
    /\ response = NoException

\* the invocation before the handler has called it
FbWaiting(hasTools) ==
    /\ tools = hasTools
    /\ idx = 1
    /\ attempts = <<>>
    /\ last_exception = NoException
    /\ fb = "idle"
    /\ response = NoException

\* the invocation after its first candidate has answered
FbAnswered(hasTools) ==
    /\ outcomes = [i \in 1..NumCandidates |-> "ok"]
    /\ tools = hasTools
    /\ idx = 1
    /\ attempts = <<[model |-> MODEL_CANDIDATES[1], config |-> ConfigParams(hasTools)]>>
    /\ last_exception = NoException
    /\ fb = "returned"
    /\ response = ResponseOf(MODEL_CANDIDATES[1])

(***************************************************************************)
(* The matcher as one call                                                 *)
(***************************************************************************)
\* scored: the positions of the rows that got past the "continue" of line 70
NotMatched == [done |-> FALSE, row |-> NoRow, scored |-> {}]

ScoredRows(company_name, rows) ==
    {i \in 1..Len(rows) : CompanyMatches(Strip(Lower(company_name)), Lower(rows[i].company))}

MatchOutcome(q, rows) ==
    [done |-> TRUE,
     row |-> match_policy_in_csv(q.company_name, q.plan_name, rows),
     scored |-> IF q.plan_name = <<>> \/ rows = <<>> THEN {}
                ELSE ScoredRows(q.company_name, rows)]

MatchIdle ==
    /\ query = [company_name |-> <<>>, plan_name |-> <<>>]
    /\ csv_content = <<>>
    /\ matched = NotMatched

MatchPolicyInCsv ==
    /\ matched = NotMatched
    /\ matched' = MatchOutcome(query, csv_content)
    /\ UNCHANGED <<fbVars, reqVars, query, csv_content>>

(***************************************************************************)
(* The two endpoints.  A handler runs up to its call of                    *)
(* generate_content_with_fallback (BeginExtract, BeginCompare), the call   *)
(* runs (AttemptSucceeds, AttemptFails), and the handler goes on with what *)
(* the call returned or raised (ExtractPolicy, ComparePolicy).             *)
(***************************************************************************)
\* a request body without a start date, and no ratios file
CompareIdle ==
    /\ start_date = JStr(<<>>)
    /\ calculated_tenure = Unknown
    /\ ratios = NoFile

ReqIdle ==
    /\ handler = "none"
    /\ raw = <<>>
    /\ today = Date(2024, 1, 10)
    /\ company = JText("Unknown")
    /\ scenario = <<>>
    /\ out = Pending
    /\ CompareIdle

\* lines 133-196
BeginExtract ==
    /\ handler = "extract"
    /\ fb = "idle"
    /\ out = Pending
    /\ fb' = "running"
    /\ UNCHANGED <<outcomes, tools, idx, attempts, last_exception, response,
                   reqVars, matchVars>>

\* lines 196-315
ExtractPolicy ==
    /\ handler = "extract"
    /\ fb \in {"returned", "raised"}
    /\ out = Pending
    /\ out' = IF fb = "raised"
                 THEN FailedCall(500, "AI Service Error", response.model)
                 ELSE ExtractResult(raw, today)
    /\ UNCHANGED <<fbVars, matchVars, handler, raw, today, company, scenario, cmpVars>>

\* lines 319-641: the tenure, the verification against the plan database,
\* then the call; a start date or company that is not a str ends the
\* request in the outer except
BeginCompare ==
    /\ handler = "compare"
    /\ fb = "idle"
    /\ out = Pending
    /\ IF TenureRaises(start_date) \/ company.t # "str"
          THEN /\ out' = Failed(500, "none", ParseFail)
               /\ calculated_tenure' =
                     IF TenureRaises(start_date) THEN calculated_tenure
                     ELSE CalculatedTenure(start_date, today)
               /\ UNCHANGED <<fb, matched>>
          ELSE /\ calculated_tenure' = CalculatedTenure(start_date, today)
               /\ matched' = MatchOutcome(query, csv_content)
               /\ fb' = "running"
               /\ out' = out
    /\ UNCHANGED <<outcomes, tools, idx, attempts, last_exception, response,
                   handler, raw, today, company, scenario, start_date, ratios,
                   query, csv_content>>

\* lines 641-777
ComparePolicy ==
    /\ handler = "compare"
    /\ fb \in {"returned", "raised"}
    /\ out = Pending
    /\ out' = IF fb = "raised"
                 THEN FailedCall(429, "All AI models are currently busy. Please try again later.", "")
                 ELSE CompareResult(raw, company, ratios)
    /\ UNCHANGED <<fbVars, matchVars, handler, raw, today, company, scenario, cmpVars>>

(***************************************************************************)
(* Specification of the fallback loop                                      *)
(***************************************************************************)
Init == FbInit /\ ReqIdle /\ MatchIdle

Next == FbNext

Spec == Init /\ [][Next]_vars

(***************************************************************************)
(* Model replies.  json.dumps writes a value as text; a reply is a payload *)
(* with or without the decoration a model puts around it.                  *)
(***************************************************************************)
RECURSIVE JoinAll(_, _)
JoinAll(parts, sep) ==
    IF parts = <<>> THEN <<>>
    ELSE IF Len(parts) = 1 THEN parts[1]
    ELSE parts[1] \o sep \o JoinAll(Tail(parts), sep)

RECURSIVE Dumps(_)
Dumps(v) ==
    CASE v.t = "num" -> IntToStr(v.n)
      [] v.t = "str" -> <<"\"">> \o v.s \o <<"\"">>
      [] v.t = "arr" ->
            <<"[">> \o JoinAll([i \in 1..Len(v.a) |-> Dumps(v.a[i])], Chars(", ")) \o <<"]">>
      [] v.t = "obj" ->
            <<"{">> \o JoinAll([i \in 1..Len(v.o) |->
                                  <<"\"">> \o v.o[i].k \o Chars("\": ") \o Dumps(v.o[i].v)],
                              Chars(", ")) \o <<"}">>

\* well-formed JSON texts
WellFormedPayloads ==
    { Chars("{}"),
      Chars("{\"company\": \"Acme\"}"),
      Chars("5"),
      Chars("[1]"),
      Chars("\"abc\""),
      Chars("{\"plan\": \"~~~\"}"),
      Chars("{\"plan\": \"~~~json A ~~~ B\"}"),
      Chars("{\"feature_analysis\": [], \"recommendations\": []}"),
      Chars("{\"company\": \"a}b{c\"}"),
      Dumps(ExtractDefault) }

\* texts json.loads rejects
MalformedPayloads ==
    { <<>>,
      Chars("Sorry, no data"),
      Chars("{"),
      Chars("{\"company\": \"Acme\""),
      Chars("a } b { c"),
      Chars("{\"company\": Acme}") }

Decorations == {"bare", "padded", "fenced json", "fenced", "prose", "prose and fence"}

Decorate(d, payload) ==
    CASE d = "bare" -> payload
      [] d = "padded" -> Chars(" ") \o payload \o Chars("\n")
      [] d = "fenced json" -> Chars("~~~json\n") \o payload \o Chars("\n~~~")
      [] d = "fenced" -> Chars("~~~\n") \o payload \o Chars("\n~~~")
      [] d = "prose" -> Chars("Here you go: ") \o payload \o Chars(" Hope it helps.")
      [] d = "prose and fence" ->
            Chars("Here you go:\n~~~json\n") \o payload \o Chars("\n~~~\nBye")

InitSalvage ==
    /\ handler \in {"extract", "compare"}
    /\ FbAnswered(handler = "compare")
    /\ query = [company_name |-> <<>>, plan_name |-> <<>>]
    /\ csv_content = <<>>
    /\ matched = IF handler = "compare" THEN MatchOutcome(query, csv_content) ELSE NotMatched
    /\ CompareIdle
    /\ scenario \in [decoration : Decorations,
                     payload : WellFormedPayloads \cup MalformedPayloads]
    /\ raw = Decorate(scenario.decoration, scenario.payload)
    /\ today = Date(2024, 1, 10)
    /\ company = JText("Acme")
    /\ out = Pending

NextSalvage == ExtractPolicy \/ ComparePolicy

SpecSalvage == InitSalvage /\ [][NextSalvage]_vars

\* index of the first candidate that succeeds under the outcome assignment
\* (NumCandidates + 1 when none does)
FirstOk ==
    IF \E i \in 1..NumCandidates : outcomes[i] = "ok"
       THEN CHOOSE i \in 1..NumCandidates :
                /\ outcomes[i] = "ok"
                /\ \A j \in 1..(i - 1) : outcomes[j] = "fail"
       ELSE NumCandidates + 1

\* C1: when candidates 1..k-1 fail and candidate k succeeds, the calls issued
\* are exactly candidates 1..k in list order, each once, the response returned
\* is candidate k's, and no later candidate is ever called; at every moment
\* the calls issued are a prefix of the candidate list.
C1_FirstSuccessWins ==
    /\ Len(attempts) <= NumCandidates
    /\ \A i \in 1..Len(attempts) : attempts[i].model = MODEL_CANDIDATES[i]
    /\ Len(attempts) <= FirstOk
    /\ fb = "returned" =>
          /\ FirstOk <= NumCandidates
          /\ Len(attempts) = FirstOk
          /\ response = ResponseOf(MODEL_CANDIDATES[FirstOk])

C1_Witness ==
    /\ fb = "returned"
    /\ FirstOk = 3
    /\ Len(attempts) = 3
    /\ outcomes[4] = "ok"

\* C2: when every candidate fails, the function raises after calling all
\* candidates once each, and what it raises is the last candidate's exception.
C2_AllFailRaisesLast ==
    /\ (fb = "raised") <=> (FirstOk = NumCandidates + 1 /\ Len(attempts) = NumCandidates)
    /\ fb = "raised" =>
          /\ \A i \in 1..NumCandidates : attempts[i].model = MODEL_CANDIDATES[i]
          /\ response = ExceptionOf(MODEL_CANDIDATES[NumCandidates])

C2_Witness ==
    /\ fb = "raised"
    /\ Len(attempts) = NumCandidates

(***************************************************************************)
(* Replies that carry a sum insured breakdown                              *)
(***************************************************************************)
MaxComponents == 2

Component(label, value) == JObj(<< Member("label", JText(label)), Member("value", value) >>)

ComponentPool ==
    { Component("Base Sum Insured", JText("10,00,000.50")),
      Component("Bonus %", JText("10%")),
      Component("Deductible", JText("50,000")),
      Component("Aggregate DEDUCTIBLE", JText("Rs 20,00,000/-")),
      Component("Percentage of SI", JText("7")),
      Component("Recharge", JText("0")),
      Component("Room", JText("1.5 lakh")),
      Component("Deductible", JText("100")),
      Component("NCB", JText("5^")),
      JObj(<< Member("value", JNum(1234)) >>) }

SeqsUpTo(S, n) == UNION {[1..k -> S] : k \in 0..n}

MoneyDocument(components) ==
    JObj(<< Member("company", JText("Acme")),
            Member("sum_insured",
                   JObj(<< Member("total", JText("1")),
                           Member("components", JArr(components)) >>)) >>)

InitMoney ==
    /\ FbAnswered(FALSE)
    /\ MatchIdle
    /\ CompareIdle
    /\ handler = "extract"
    /\ scenario \in [components : SeqsUpTo(ComponentPool, MaxComponents)]
    /\ raw = Dumps(MoneyDocument(scenario.components))
    /\ today = Date(2024, 1, 10)
    /\ company = JText("Acme")
    /\ out = Pending

NextMoney == ExtractPolicy

SpecMoney == InitMoney /\ [][NextMoney]_vars

\* The amount a value text stands for, as the specification words it: without
\* the thousands separators, up to the first decimal point, only the decimal
\* digits, read as a number.
AmountOfText(s) ==
    LET unseparated == SelectSeq(s, LAMBDA c : c # ",")
        dots == {i \in 1..Len(unseparated) : unseparated[i] = "."}
        whole == IF dots = {} THEN unseparated
                 ELSE SubSeq(unseparated, 1, Min(dots) - 1)
    IN  ToInt(SelectSeq(whole, IsDigit))

ValueText(comp) == PyStr(Get(comp, Chars("value"), JText("0")))
LabelText(comp) == Lower(Get(comp, Chars("label"), JStr(<<>>)).s)

\* the label indicators as the specification words them
PercentLabelled(comp) ==
    \E i \in 1..Len(LabelText(comp)) :
        \/ LabelText(comp)[i] = "%"
        \/ MatchesAt(LabelText(comp), Chars("percent"), i)
DeductibleLabelled(comp) ==
    \E i \in 1..Len(LabelText(comp)) : MatchesAt(LabelText(comp), Chars("deductible"), i)

RECURSIVE SignedSum(_)
SignedSum(components) ==
    IF components = <<>> THEN 0
    ELSE LET comp == Head(components)
             amount == AmountOfText(ValueText(comp))
         IN  (IF PercentLabelled(comp) THEN 0
              ELSE IF DeductibleLabelled(comp) THEN 0 - amount
              ELSE amount) + SignedSum(Tail(components))

\* the number a display string shows: its digits, negated after a minus sign
NumberShown(display) ==
    LET digits == SelectSeq(display, IsDigit)
    IN  IF display # <<>> /\ display[1] = "-" THEN 0 - ToInt(digits) ELSE ToInt(digits)

SumInsured(doc) == Lookup(doc, Chars("sum_insured"))
TotalWritten(doc) == Lookup(SumInsured(doc), Chars("total")).s
ComponentsWritten(doc) == Lookup(SumInsured(doc), Chars("components")).a

\* South-Asian grouping of a digit string: a comma before the last three
\* digits and before every second digit to their left
Grouped(digits) ==
    LET n == Len(digits)
        CommaBefore(i) == i > 1 /\ n - i + 1 >= 3 /\ (n - i + 1 - 3) % 2 = 0
        Piece(i) == IF CommaBefore(i) THEN <<",", digits[i]>> ELSE <<digits[i]>>
    IN  JoinAll([i \in 1..n |-> Piece(i)], <<>>)

IndianDisplay(n) ==
    IF n < 0 THEN <<"-">> \o Grouped(NatToStr(0 - n)) ELSE Grouped(NatToStr(n))

\* C7: for every component value extract_number yields a non-negative
\* integer: the value without thousands separators, cut at the first decimal
\* point, its remaining digits read as a number (0 when there are none).
C7_ExtractNumberIsTruncatedDigits ==
    out # Pending =>
        \A i \in 1..Len(scenario.components) :
            LET value == Get(scenario.components[i], Chars("value"), JText("0"))
            IN  /\ extract_number(value).ok
                /\ extract_number(value).n >= 0
                /\ extract_number(value).n = AmountOfText(PyStr(value))

\* C8: the total written is the sum of the amounts of the components labelled
\* neither as a percentage nor as a deductible, minus the amounts of the
\* components labelled as a deductible and not as a percentage.
C8_TotalIsSignedSum ==
    out.status = "returned" =>
        NumberShown(TotalWritten(out.data)) = SignedSum(scenario.components)

C8_Witness ==
    /\ out.status = "returned"
    /\ scenario.components =
          << Component("Base Sum Insured", JText("10,00,000.50")),
             Component("Deductible", JText("50,000")) >>
    /\ TotalWritten(out.data) = Chars("9,50,000")

\* C9: the total and every retained component value are written in
\* South-Asian grouping, a negative total as a minus sign directly followed
\* by the grouping of its absolute value.
C9_DisplayIsIndianGrouping ==
    out.status = "returned" =>
        /\ TotalWritten(out.data) = IndianDisplay(SignedSum(scenario.components))
        /\ \A i \in 1..Len(ComponentsWritten(out.data)) :
              LET shown == Lookup(ComponentsWritten(out.data)[i], Chars("value")).s
              IN  shown = IndianDisplay(NumberShown(shown))

(***************************************************************************)
(* Replies that carry policy holders.  A holder of the pool is described   *)
(* by the birth date the document states, the way the model wrote it       *)
(* (style), whether parse_date accepts that writing (parses), and the age  *)
(* the model reported (NoAge when it reported none).                       *)
(***************************************************************************)
MaxHolders == 2

MonthNames == << Chars("Jan"), Chars("Feb"), Chars("Mar"), Chars("Apr"),
                 Chars("May"), Chars("Jun"), Chars("Jul"), Chars("Aug"),
                 Chars("Sep"), Chars("Oct"), Chars("Nov"), Chars("Dec") >>

Pad2(n) == IF n < 10 THEN <<"0">> \o NatToStr(n) ELSE NatToStr(n)

WriteDate(birth, style) ==
    LET dd == Pad2(birth.day)
        mm == Pad2(birth.month)
        yyyy == NatToStr(birth.year)
        mon == MonthNames[birth.month]
    IN  CASE style = "d/m/Y" -> dd \o <<"/">> \o mm \o <<"/">> \o yyyy
          [] style = "d-m-Y" -> NatToStr(birth.day) \o <<"-">> \o NatToStr(birth.month) \o <<"-">> \o yyyy
          [] style = "Y-m-d" -> yyyy \o <<"-">> \o mm \o <<"-">> \o dd
          [] style = "d-Mon-Y" -> dd \o <<"-">> \o mon \o <<"-">> \o yyyy
          [] style = "d Mon Y" -> dd \o <<" ">> \o Lower(mon) \o <<" ">> \o yyyy
          [] style = "d.m.Y" -> dd \o <<".">> \o mm \o <<".">> \o yyyy
          [] style = "d/m/y" -> dd \o <<"/">> \o mm \o <<"/">> \o SubSeq(yyyy, 3, 4)
          [] style = "Mon d, Y" -> mon \o <<" ">> \o dd \o Chars(", ") \o yyyy
          [] style = "empty" -> <<>>

NoAge == JText("(no age)")

Holder(y, m, d, style, parses, age) ==
    [birth |-> Date(y, m, d), style |-> style, parses |-> parses, age |-> age]

HolderPool ==
    { Holder(1990, 6, 15, "d/m/Y", TRUE, JText("40")),
      Holder(1990, 6, 15, "d-m-Y", TRUE, JNum(12)),
      Holder(2000, 2, 29, "Y-m-d", TRUE, NoAge),
      Holder(1985, 12, 31, "d-Mon-Y", TRUE, JText("38")),
      Holder(1971, 1, 10, "d Mon Y", TRUE, JText("fifty")),
      Holder(1990, 6, 15, "d.m.Y", FALSE, JText("40")),
      Holder(1990, 6, 15, "d/m/y", FALSE, JNum(12)),
      Holder(1990, 2, 31, "d/m/Y", FALSE, JText("34")),
      Holder(1990, 6, 15, "Mon d, Y", FALSE, NoAge),
      Holder(1990, 6, 15, "empty", FALSE, JText("41")),
      Holder(1990, 6, 15, "missing", FALSE, JText("29")) }

\* the person record the model writes for a holder
PersonRecord(h) ==
    JObj( <<Member("name", JText("A"))>>
          \o (IF h.style = "missing" THEN <<>>
              ELSE <<Member("dob", JStr(WriteDate(h.birth, h.style)))>>)
          \o (IF h.age = NoAge THEN <<>> ELSE <<Member("age", h.age)>>) )

HoldersDocument(holders) ==
    JObj(<< Member("company", JText("Acme")),
            Member("policy_holders",
                   JArr([i \in 1..Len(holders) |-> PersonRecord(holders[i])])) >>)

Todays ==
    { Date(2024, 1, 10), Date(2024, 7, 20), Date(2024, 6, 14),
      Date(2024, 6, 15), Date(2023, 2, 28) }

InitAge ==
    /\ FbAnswered(FALSE)
    /\ MatchIdle
    /\ CompareIdle
    /\ handler = "extract"
    /\ scenario \in [holders : SeqsUpTo(HolderPool, MaxHolders)]
    /\ raw = Dumps(HoldersDocument(scenario.holders))
    /\ today \in Todays
    /\ company = JText("Acme")
    /\ out = Pending

NextAge == ExtractPolicy

SpecAge == InitAge /\ [][NextAge]_vars

\* the age of a person born on birth, on the day now: the difference of the
\* years, less one while this year's birthday is still ahead
AgeOn(birth, now) ==
    IF now.month < birth.month \/ (now.month = birth.month /\ now.day < birth.day)
       THEN now.year - birth.year - 1
       ELSE now.year - birth.year

HoldersWritten(doc) == Lookup(doc, Chars("policy_holders")).a

\* C10: a person whose date of birth parses gets the age current_year -
\* birth_year, less one exactly when (month, day) of today is before (month,
\* day) of the birth date; a person whose date of birth is missing or does
\* not parse keeps the age the model reported (or none).
C10_AgeRecomputedOrKept ==
    out.status = "returned" =>
        /\ Len(HoldersWritten(out.data)) = Len(scenario.holders)
        /\ \A i \in 1..Len(scenario.holders) :
              LET h == scenario.holders[i]
                  written == Get(HoldersWritten(out.data)[i], Chars("age"), NoAge)
              IN  IF h.parses
                     THEN written = JStr(IntToStr(AgeOn(h.birth, today)))
                     ELSE written = h.age

C10_Witness ==
    /\ out.status = "returned"
    /\ today = Date(2024, 1, 10)
    /\ scenario.holders = << Holder(1990, 6, 15, "d/m/Y", TRUE, JText("40")),
                             Holder(1990, 6, 15, "d/m/y", FALSE, JNum(12)) >>
    /\ Lookup(HoldersWritten(out.data)[1], Chars("dob")) = JText("15/06/1990")
    /\ Lookup(HoldersWritten(out.data)[1], Chars("age")) = JText("33")
    /\ Lookup(HoldersWritten(out.data)[2], Chars("age")) = JNum(12)

(***************************************************************************)
(* Queries and reference rows for the matcher                              *)
(***************************************************************************)
MaxRows == 2

QueryCompanies == { Chars("HDFC ERGO"), Chars(" Acme Ltd ") }

QueryPlans ==
    { Chars("Optima Secure"), Chars("ab"), Chars("a"), <<>>,
      Chars("Completely Unrelated Plan Xyz") }

RowPool ==
    { Row(Chars("HDFC ERGO General Insurance"), Chars("Optima Secure")),
      Row(Chars("hdfc ergo"), Chars("OPTIMA SECURE")),
      Row(Chars("HDFC ERGO General Insurance"), Chars("Optima Restore")),
      Row(Chars("HDFC"), Chars("my: optima secure plus")),
      Row(Chars("Star Health"), Chars("Optima Secure")),
      Row(Chars("Acme"), Chars("ac")),
      Row(Chars("acme ltd"), Chars("xaxx")),
      Row(Chars("Acme Ltd Insurance"), Chars("abc")),
      Row(Chars("ACME"), Chars("Ab")),
      Row(Chars(" Acme"), Chars("ab")),
      Row(Chars("Acme "), Chars("xab")) }

InitMatch ==
    /\ FbIdle
    /\ ReqIdle
    /\ query \in [company_name : QueryCompanies, plan_name : QueryPlans]
    /\ csv_content \in SeqsUpTo(RowPool, MaxRows)
    /\ matched = NotMatched

NextMatch == MatchPolicyInCsv

SpecMatch == InitMatch /\ [][NextMatch]_vars

\* the rows that pass the company filter, and the score of a row
PassingRows ==
    {i \in 1..Len(csv_content) :
        CompanyMatches(Strip(Lower(query.company_name)), Lower(csv_content[i].company))}
ScoreOfRow(i) == PlanScore(Strip(Lower(query.plan_name)), Lower(csv_content[i].plan))

\* the passing rows no passing row outscores
TopRows == {i \in PassingRows : \A j \in PassingRows : ~FractionGreater(ScoreOfRow(j), ScoreOfRow(i))}

\* C6: a row is returned only when the best score among the rows passing the
\* company filter strictly exceeds 0.5, and it is then the first row in
\* dataset order with that score; otherwise (best score at most 0.5, no
\* passing row, empty plan name, empty dataset) no match is reported.
C6_FirstBestAboveThreshold ==
    matched.done =>
        IF /\ query.plan_name # <<>>
           /\ PassingRows # {}
           /\ FractionGreater(ScoreOfRow(Min(TopRows)), Fraction(1, 2))
           THEN matched.row = csv_content[Min(TopRows)]
           ELSE matched.row = NoRow

\* two passing rows tie above the threshold and the first one is returned
C6_Witness ==
    /\ matched.done
    /\ Len(csv_content) = 2
    /\ TopRows = {1, 2}
    /\ csv_content[1] # csv_content[2]
    /\ matched.row = csv_content[1]

\* C3: salvage is total in both endpoints: whatever text the successful
\* invocation returned, the handler ends with a salvaged structured value and
\* hands a result back; it never ends in a raised exception (HTTP 500).
C3_SalvageNeverRaises ==
    out # Pending => (out.salvaged.ok /\ out.status = "returned")

\* C4: for a well-formed JSON reply without fence or prose around it, the
\* salvaged value is the value of a strict parse of that reply, also when a
\* string inside it holds the fence marker.
C4_SalvageRoundTrips ==
    (out # Pending /\ scenario.decoration = "bare"
        /\ scenario.payload \in WellFormedPayloads)
    => (out.salvaged.ok /\ out.salvaged.v = JsonLoads(scenario.payload).v)

ExpectedFields ==
    { Chars("company"), Chars("plan"), Chars("premium"), Chars("coverage"),
      Chars("policy_details"), Chars("sum_insured"), Chars("policy_holders"),
      Chars("features_found"), Chars("comprehensive_findings") }

FullShape(doc) ==
    /\ doc.t = "obj"
    /\ \A f \in ExpectedFields : HasKey(doc, f)
    /\ Lookup(doc, Chars("sum_insured")).t = "obj"
    /\ HasKey(Lookup(doc, Chars("sum_insured")), Chars("total"))
    /\ HasKey(Lookup(doc, Chars("sum_insured")), Chars("components"))

\* C5: every document extract_policy returns has all expected fields
\* (company, plan, premium, coverage, policy_details, sum_insured with total
\* and components, policy_holders, features_found, comprehensive_findings),
\* whichever salvage step produced it.
C5_ReturnedDocumentHasFullShape ==
    (handler = "extract" /\ out.status = "returned") => FullShape(out.data)

(***************************************************************************)
(* C17: the format hint of every attempt                                   *)
(***************************************************************************)
\* C17: every attempt issued by generate_content_with_fallback carries the
\* structured-output hint exactly when the invocation has no tools; with
\* tools the attempt is still issued (one attempt per candidate reached),
\* and all attempts of one invocation carry the same configuration.
C17_HintIffNoTools ==
    /\ \A i \in 1..Len(attempts) :
          /\ attempts[i].config.response_mime_type = ~tools
          /\ attempts[i].config.tools = tools
          /\ attempts[i].config = attempts[1].config
    /\ fb = "running" => Len(attempts) = idx - 1
    /\ fb = "returned" => Len(attempts) = idx
    /\ fb = "raised" => Len(attempts) = NumCandidates

\* two candidates were tried with tools requested, the first one failing
C17_Witness ==
    /\ tools
    /\ Len(attempts) >= 2
    /\ outcomes[1] = "fail"
    /\ ~attempts[2].config.response_mime_type

(***************************************************************************)
(* C18: the company filter of the matcher                                  *)
(***************************************************************************)
\* the relation between the case-folded, trimmed organization names
TrimmedRelated(i) ==
    LET q == Strip(Lower(query.company_name))
        f == Strip(Lower(csv_content[i].company))
    IN  Contains(f, q) \/ Contains(q, f)

\* C18: the rows that take part in plan-name scoring are exactly the rows
\* whose case-folded, trimmed organization field contains, or is contained
\* in, the case-folded, trimmed query organization name; only such a row is
\* ever returned.
C18_FilterIsTrimmedContainment ==
    (matched.done /\ query.plan_name # <<>> /\ csv_content # <<>>) =>
        /\ matched.scored = {i \in 1..Len(csv_content) : TrimmedRelated(i)}
        /\ matched.row.found =>
              \E i \in 1..Len(csv_content) :
                  TrimmedRelated(i) /\ matched.row = csv_content[i]

(***************************************************************************)
(* C19: the component list after monetary normalization                    *)
(***************************************************************************)
\* a component without its value, which normalization rewrites
Unvalued(comp) == SelectSeq(comp.o, LAMBDA m : m.k # Chars("value"))

NotPercentLabelled(comp) == ~PercentLabelled(comp)

\* C19: the component list written is the list of the input components
\* whose label carries no percent indicator, in their original order: the
\* percent-labelled ones are removed and no other component is.
C19_OnlyPercentComponentsRemoved ==
    out.status = "returned" =>
        LET kept == SelectSeq(scenario.components, NotPercentLabelled)
            written == ComponentsWritten(out.data)
        IN  /\ Len(written) = Len(kept)
            /\ \A i \in 1..Len(kept) : Unvalued(written[i]) = Unvalued(kept[i])

(***************************************************************************)
(* Replies that are a whole policy document: every field of the prompt's   *)
(* template, with components and holders drawn from the pools above.       *)
(***************************************************************************)
PolicyDocument(components, holders) ==
    JObj(<< Member("company", JText("Acme General Insurance")),
            Member("plan", JText("Gold")),
            Member("premium", JText("12,000")),
            Member("coverage", JText("5 Lakh")),
            Member("policy_details",
                   JObj(<< Member("start_date", JText("01/04/2020")),
                           Member("vintage", JText("9 Years")) >>)),
            Member("sum_insured",
                   JObj(<< Member("total", JText("1")),
                           Member("currency", JText("INR")),
                           Member("components", JArr(components)) >>)),
            Member("policy_holders",
                   JArr([i \in 1..Len(holders) |-> PersonRecord(holders[i])])),
            Member("features_found", JObj(<< Member("copay", JText("10%")) >>)),
            Member("comprehensive_findings", JText("Room rent 1,00,000.")) >>)

HolderLists ==
    { <<>>,
      << Holder(2000, 2, 29, "Y-m-d", TRUE, NoAge) >>,
      << Holder(1990, 6, 15, "d/m/Y", TRUE, JText("40")),
         Holder(1990, 6, 15, "d/m/y", FALSE, JNum(12)) >> }

RecomputeDays == { Date(2024, 1, 10), Date(2024, 7, 20) }

InitRecompute ==
    /\ FbAnswered(FALSE)
    /\ MatchIdle
    /\ CompareIdle
    /\ handler = "extract"
    /\ scenario \in [components : SeqsUpTo(ComponentPool, MaxComponents),
                     holders : HolderLists]
    /\ raw = Dumps(PolicyDocument(scenario.components, scenario.holders))
    /\ today \in RecomputeDays
    /\ company = JText("Acme")
    /\ out = Pending

NextRecompute == ExtractPolicy

SpecRecompute == InitRecompute /\ [][NextRecompute]_vars

\* lines 238-306 applied to a document once more
Renormalized(doc, now) ==
    LET aged == RecomputeAges(doc, now)
    IN  IF aged.ok THEN RecomputeTotal(aged.data) ELSE Raised

\* C12: recompute and normalization applied, at the same current date, to a
\* document extract_policy returned gives that document again: ages,
\* component list, display values and total all stay as they are.
C12_RecomputeIsIdempotent ==
    out.status = "returned" => Renormalized(out.data, today) = Done(out.data)

\* a returned document whose ages, component list and total were all
\* rewritten by the first application
C12_Witness ==
    /\ out.status = "returned"
    /\ Len(scenario.holders) = 2
    /\ scenario.components =
          << Component("Bonus %", JText("10%")),
             Component("Base Sum Insured", JText("10,00,000.50")) >>
    /\ TotalWritten(out.data) = Chars("10,00,000")
    /\ Len(ComponentsWritten(out.data)) = 1
    /\ Lookup(ComponentsWritten(out.data)[1], Chars("value")) = JText("10,00,000")
    /\ Lookup(HoldersWritten(out.data)[1], Chars("age")) # JText("40")

(***************************************************************************)
(* C20: what post-processing leaves alone                                  *)
(***************************************************************************)
\* the members of a dict other than the named ones
Others(d, names) == SelectSeq(d.o, LAMBDA m : \A i \in 1..Len(names) : m.k # Chars(names[i]))

Keys(d) == [i \in 1..Len(d.o) |-> d.o[i].k]

\* C20: the document returned differs from the salvaged one only in the age
\* of person records, in the components list of sum_insured (which
\* components are listed and the value each shows) and in its total: all
\* other top-level fields, every other member of sum_insured, every person's
\* other members (name, dob) and every listed component's other members
\* (label) are as salvaged.
C20_OnlyAgesComponentsTotalChange ==
    out.status = "returned" =>
        LET before == out.salvaged.v
            after == out.data
        IN  /\ Others(after, <<"policy_holders", "sum_insured">>)
                  = Others(before, <<"policy_holders", "sum_insured">>)
            /\ Others(SumInsured(after), <<"components", "total">>)
                  = Others(SumInsured(before), <<"components", "total">>)
            /\ Len(HoldersWritten(after)) = Len(HoldersWritten(before))
            /\ \A i \in 1..Len(HoldersWritten(before)) :
                  Others(HoldersWritten(after)[i], <<"age">>)
                      = Others(HoldersWritten(before)[i], <<"age">>)
            /\ \A i \in 1..Len(ComponentsWritten(after)) :
                  \E j \in 1..Len(ComponentsWritten(before)) :
                      Unvalued(ComponentsWritten(after)[i])
                          = Unvalued(ComponentsWritten(before)[j])
            /\ Keys(after) = Keys(before)

\* a returned document in which an age, the component list and the total
\* were rewritten while the fields around them are those of the reply
C20_Witness ==
    /\ out.status = "returned"
    /\ today = Date(2024, 7, 20)
    /\ scenario.holders = << Holder(2000, 2, 29, "Y-m-d", TRUE, NoAge) >>
    /\ scenario.components =
          << Component("Deductible", JText("50,000")),
             Component("Percentage of SI", JText("7")) >>
    /\ out.data # out.salvaged.v
    /\ Lookup(HoldersWritten(out.data)[1], Chars("age")) = JText("24")
    /\ Lookup(HoldersWritten(out.data)[1], Chars("dob")) = JText("2000-02-29")
    /\ Lookup(out.data, Chars("comprehensive_findings")) = JText("Room rent 1,00,000.")
    /\ Lookup(ComponentsWritten(out.data)[1], Chars("label")) = JText("Deductible")

(***************************************************************************)
(* C15: compare requests that state an inception date.  An inception of    *)
(* the pool is the date the policy states, the way the request writes it   *)
(* and whether parse_date accepts that writing.                            *)
(***************************************************************************)
Inception(y, m, d, style, parses) == [date |-> Date(y, m, d), style |-> style, parses |-> parses]

InceptionPool ==
    { Inception(2020, 4, 15, "d/m/Y", TRUE),
      Inception(2020, 4, 10, "d-m-Y", TRUE),
      Inception(2019, 12, 31, "Y-m-d", TRUE),
      Inception(2020, 2, 29, "d-Mon-Y", TRUE),
      Inception(2023, 1, 10, "d Mon Y", TRUE),
      Inception(2022, 7, 20, "d/m/Y", TRUE),
      Inception(2021, 8, 1, "Y-m-d", TRUE),
      Inception(2020, 4, 15, "d.m.Y", FALSE),
      Inception(2020, 4, 15, "Mon d, Y", FALSE),
      Inception(2020, 4, 31, "d/m/Y", FALSE),
      Inception(2020, 4, 15, "empty", FALSE) }

TenureDays ==
    { Date(2024, 1, 10), Date(2024, 4, 10), Date(2024, 4, 15),
      Date(2024, 7, 19), Date(2023, 2, 28) }

\* the backend answers at once, or after one failed candidate
AnswerPatterns ==
    { [i \in 1..NumCandidates |-> "ok"],
      [i \in 1..NumCandidates |-> IF i = 1 THEN "fail" ELSE "ok"] }

InitTenure ==
    /\ handler = "compare"
    /\ FbWaiting(TRUE)
    /\ outcomes \in AnswerPatterns
    /\ scenario \in [inception : InceptionPool]
    /\ start_date = JStr(WriteDate(scenario.inception.date, scenario.inception.style))
    /\ today \in TenureDays
    /\ calculated_tenure = NotComputed
    /\ ratios = NoFile
    /\ raw = Chars("{\"pros\": [], \"cons\": []}")
    /\ company = JText("Acme")
    /\ out = Pending
    /\ MatchIdle

NextTenure == BeginCompare \/ AttemptSucceeds \/ AttemptFails \/ ComparePolicy

SpecTenure == InitTenure /\ [][NextTenure]_vars

\* the whole months from one date to a later one: a month counts once its
\* day of the month is reached
WholeMonths(from, to) ==
    12 * (to.year - from.year) + (to.month - from.month)
        - (IF to.day < from.day THEN 1 ELSE 0)

ElapsedText(from, to) ==
    IntToStr(WholeMonths(from, to) \div 12) \o Chars(" Years ")
        \o IntToStr(WholeMonths(from, to) % 12) \o Chars(" Months")

\* C15: for an inception date that parses, the tenure computed is the
\* number of whole years and whole months elapsed up to today, a month or
\* year not completed on today's day of the month not being counted, written
\* "<N> Years <M> Months"; for a date that is missing or does not parse it
\* is "Unknown".
C15_TenureIsElapsedWholeMonths ==
    calculated_tenure # NotComputed =>
        IF scenario.inception.parses
           THEN calculated_tenure = ElapsedText(scenario.inception.date, today)
           ELSE calculated_tenure = Unknown

(***************************************************************************)
(* Replies of the compare prompt.  A reply is an analysis (a               *)
(* feature_analysis list, the score the model gives itself if it gives     *)
(* one, statistics and recommendations), an object without analysis, or no *)
(* JSON at all; it comes bare or inside the decoration of a model.         *)
(***************************************************************************)
MaxFeatures == 3

Feature(category, status) ==
    JObj(<< Member("category", JText(category)), Member("status", JText(status)) >>)

FeaturePool ==
    { Feature("Non-Negotiable Benefits", "Positive"),
      Feature("Non-Negotiable Benefits", "Negative"),
      Feature("Must Have", "Positive"),
      Feature("Must Have", "Negative"),
      Feature("Good to Have", "Positive") }

\* the score the model states for itself; NoScore when it states none
NoScore == PyNone
ModelScores == {NoScore, JNum(9)}

AnalysisDocument(features, model_score) ==
    JObj( <<Member("feature_analysis", JArr(features))>>
          \o (IF model_score = NoScore THEN <<>>
              ELSE <<Member("product_score", model_score)>>)
          \o << Member("current_policy_stats", JObj(<<Member("csr", JText("98.5%"))>>)),
                Member("recommendations", JArr(<<>>)) >> )

ReplyKinds == {"analysis", "empty object", "apology"}

ReplyText(sc) ==
    CASE sc.kind = "analysis" -> Dumps(AnalysisDocument(sc.features, sc.model_score))
      [] sc.kind = "empty object" -> Chars("{}")
      [] sc.kind = "apology" -> Chars("Sorry, no data")

ScoreScenarios ==
    { sc \in [kind : ReplyKinds, features : SeqsUpTo(FeaturePool, MaxFeatures),
              model_score : ModelScores,
              decoration : {"bare", "fenced json", "prose"}] :
        sc.kind # "analysis" => (sc.features = <<>> /\ sc.model_score = NoScore) }

InitScore ==
    /\ handler = "compare"
    /\ FbAnswered(TRUE)
    /\ scenario \in ScoreScenarios
    /\ raw = Decorate(scenario.decoration, ReplyText(scenario))
    /\ today = Date(2024, 1, 10)
    /\ company = JText("Acme")
    /\ CompareIdle
    /\ query = [company_name |-> <<>>, plan_name |-> <<>>]
    /\ csv_content = <<>>
    /\ matched = MatchOutcome(query, csv_content)
    /\ out = Pending

NextScore == ComparePolicy

SpecScore == InitScore /\ [][NextScore]_vars

\* a numeric value in tenths
Tenths(v) == IF v.t = "float" THEN v.n ELSE 10 * v.n
IsNumeric(v) == v.t \in {"float", "num"}

\* the records of the two highest-priority categories, and the positive ones
Relevant(features) ==
    SelectSeq(features, LAMBDA f : Lookup(f, Chars("category")) \in
                                      {JText("Non-Negotiable Benefits"), JText("Must Have")})
PositiveOf(features) ==
    SelectSeq(features, LAMBDA f : Lookup(f, Chars("status")) = JText("Positive"))

\* tenths is positive / total * 10 rounded to one decimal
IsRoundedScore(tenths, positive, total) ==
    IF total = 0 THEN tenths = 0
    ELSE /\ 2 * (tenths * total - 100 * positive) <= total
         /\ 2 * (100 * positive - tenths * total) <= total

\* C14: when the result recovered from the reply has a feature_analysis
\* list, the product_score returned is the one computed from that list, by
\* whichever salvage step the result was recovered: positive records of the
\* two categories over all records of the two categories, times 10, to one
\* decimal, and 0 when there is no such record.
C14_ScoreIsComputedLocally ==
    (out.status = "returned" /\ scenario.kind = "analysis") =>
        /\ HasKey(out.data, Chars("product_score"))
        /\ IsNumeric(Lookup(out.data, Chars("product_score")))
        /\ IsRoundedScore(Tenths(Lookup(out.data, Chars("product_score"))),
                          Len(PositiveOf(Relevant(scenario.features))),
                          Len(Relevant(scenario.features)))

\* C16: every result compare_policy returns has feature_analysis, a numeric
\* product_score, current_policy_stats and a recommendations list.
C16_ResultHasBundleShape ==
    out.status = "returned" =>
        /\ HasKey(out.data, Chars("feature_analysis"))
        /\ HasKey(out.data, Chars("product_score"))
        /\ IsNumeric(Lookup(out.data, Chars("product_score")))
        /\ HasKey(out.data, Chars("current_policy_stats"))
        /\ HasKey(out.data, Chars("recommendations"))
        /\ Lookup(out.data, Chars("recommendations")).t = "arr"

(***************************************************************************)
(* Replies that carry recommendations, and the ratios file they are ranked *)
(* by.                                                                     *)
(***************************************************************************)
MaxRecs == 3

Rec(company_name) == JObj(<<Member("company", JText(company_name))>>)

RecPool ==
    { Rec("Bajaj Allianz"),
      Rec("HDFC Ergo"),
      JObj(<< Member("company", JText("HDFC ERGO General Insurance")),
              Member("plan", JText("Optima")) >>),
      Rec("Star Health and Allied Insurance"),
      Rec("Star"),
      Rec("Zuno"),
      JObj(<<Member("plan", JText("Nameless"))>>),
      JText("Acko") }

Cells(texts) == [i \in 1..Len(texts) |-> Chars(texts[i])]

RatioFiles ==
    { NoFile,
      File(<< Cells(<<"Company", "Claims Paid Ratio">>) >>),
      File(<< Cells(<<"Company", "Claims Paid Ratio">>),
              Cells(<<"", "2023-24">>),
              Cells(<<"Niva Bupa Health Insurance", "91.5%">>),
              Cells(<<" Bajaj Allianz General Insurance ", "90.0%">>),
              Cells(<<"HDFC ERGO General Insurance", " 86 ">>),
              Cells(<<"Star Health", "82.25">>),
              Cells(<<"Broken", "N/A">>),
              Cells(<<"Short">>),
              Cells(<<"niva bupa health", "99">>) >>) }

RankDocument(recs) ==
    JObj(<< Member("product_score", JNum(7)),
            Member("recommendations", JArr(recs)) >>)

InitRank ==
    /\ handler = "compare"
    /\ FbAnswered(TRUE)
    /\ scenario \in [recs : SeqsUpTo(RecPool, MaxRecs)]
    /\ raw = Dumps(RankDocument(scenario.recs))
    /\ ratios \in RatioFiles
    /\ today = Date(2024, 1, 10)
    /\ company = JText("Acme")
    /\ start_date = JStr(<<>>)
    /\ calculated_tenure = Unknown
    /\ query = [company_name |-> <<>>, plan_name |-> <<>>]
    /\ csv_content = <<>>
    /\ matched = MatchOutcome(query, csv_content)
    /\ out = Pending

NextRank == ComparePolicy

SpecRank == InitRank /\ [][NextRank]_vars

\* the metric table the file gives: empty without a file or its two headers
MetricTable == IF ratios.found /\ Len(ratios.rows) >= 2 THEN CsrMap(ratios.rows) ELSE <<>>

\* a candidate with a company name, or with none at all
IsCandidate(rec) ==
    rec.t = "obj" /\ Get(rec, Chars("company"), JStr(<<>>)).t = "str"

NormalizedName(rec) == CleanName(Lower(Get(rec, Chars("company"), JStr(<<>>)).s))

\* the metric of a candidate as the specification words it
Metric(rec, table) ==
    LET name == NormalizedName(rec)
        IsExact(i) == table[i].k = name
        IsContainment(i) == \/ \E j \in 1..(Len(name) + 1) : MatchesAt(name, table[i].k, j)
                            \/ \E j \in 1..(Len(table[i].k) + 1) : MatchesAt(table[i].k, name, j)
    IN  IF \E i \in 1..Len(table) : IsExact(i)
           THEN table[CHOOSE i \in 1..Len(table) : IsExact(i)].v
        ELSE IF \E i \in 1..Len(table) : IsContainment(i)
           THEN table[CHOOSE i \in 1..Len(table) :
                         /\ IsContainment(i)
                         /\ \A j \in 1..(i - 1) : ~IsContainment(j)].v
        ELSE 0

Metrics(recs, table) == [i \in 1..Len(recs) |-> Metric(recs[i], table)]

RecsWritten(doc) == Lookup(doc, Chars("recommendations")).a

\* the place of the i-th given candidate in the ranking by metric
\* descending, equal metrics in their given order: behind the candidates of
\* greater metric and the earlier ones of equal metric
PlaceOf(i, metric) ==
    1 + Cardinality({j \in 1..Len(metric) :
                        metric[j] > metric[i] \/ (metric[j] = metric[i] /\ j < i)})

IsStableRanking(given, ranked, metric) ==
    /\ Len(ranked) = Len(given)
    /\ \A i \in 1..Len(given) : ranked[PlaceOf(i, metric)] = given[i]

FirstAnswerAt(k) == [i \in 1..NumCandidates |-> IF i < k THEN "fail" ELSE "ok"]

BackendPatterns == {FirstAnswerAt(k) : k \in 1..(NumCandidates + 1)}

\* what the answering candidate says
RequestTexts ==
    { Chars("{\"company\": \"Acme\"}"),
      Chars("~~~json\n{\"pros\": [\"a\", \"b\"], \"cons\": [\"c\"]}\n~~~"),
      Chars("Sorry, no data"),
      <<>>,
      Chars("5"),
      Chars("[1]") }

\* policy_details.start_date of the request body
StartDates == { JStr(<<>>), JText("15/04/2020"), JText("soon") }

InitRequest ==
    /\ handler \in {"extract", "compare"}
    /\ FbWaiting(handler = "compare")
    /\ outcomes \in BackendPatterns
    /\ raw \in RequestTexts
    /\ scenario = [text |-> raw]
    /\ start_date \in StartDates
    /\ calculated_tenure = NotComputed
    /\ ratios = NoFile
    /\ today = Date(2024, 1, 10)
    /\ company = JText("Acme")
    /\ out = Pending
    /\ MatchIdle

NextRequest ==
    \/ BeginExtract
    \/ BeginCompare
    \/ AttemptSucceeds
    \/ AttemptFails
    \/ ExtractPolicy
    \/ ComparePolicy

SpecRequest == InitRequest /\ [][NextRequest]_vars

\* every candidate was tried and failed
Exhausted == fb = "raised"

\* C13: a request ends in a failure only when all candidates are exhausted,
\* and the failure then describes the cause the last candidate failed with;
\* in every other case (text that does not parse or is empty, a parsed
\* value of unexpected shape, a date that does not parse) the request ends
\* with a result returned.
C13_OnlyExhaustionFails ==
    out # Pending =>
        IF Exhausted
           THEN /\ out.status = "failed"
                /\ out.detail.cause = MODEL_CANDIDATES[NumCandidates]
           ELSE out.status = "returned"


(***************************************************************************)
(* Replies of the compare prompt that state pros and cons.  Each of the    *)
(* two is absent, a list of up to MaxItems entries, a text or a number;    *)
(* the reply comes bare (parsed strictly) or inside prose (recovered by    *)
(* the brace substring), or is no JSON at all.                             *)
(***************************************************************************)
MaxItems == 8

Item(prefix, i) == JStr(Chars(prefix) \o IntToStr(i))
ItemList(prefix, n) == JArr([i \in 1..n |-> Item(prefix, i)])

\* PyNone stands for a key the reply does not have
ProsConsValues(prefix) ==
    { ItemList(prefix, n) : n \in 0..MaxItems } \cup {PyNone, JText("good"), JNum(3)}

ProsConsDocument(pros, cons) ==
    JObj( (IF pros = PyNone THEN <<>> ELSE <<Member("pros", pros)>>)
          \o (IF cons = PyNone THEN <<>> ELSE <<Member("cons", cons)>>)
          \o <<Member("recommendations", JArr(<<>>))>> )

ProsConsScenarios ==
    { sc \in [kind : {"lists", "apology"},
              pros : ProsConsValues("p"), cons : ProsConsValues("c"),
              decoration : {"bare", "prose"}] :
        sc.kind = "apology" =>
            (sc.pros = PyNone /\ sc.cons = PyNone /\ sc.decoration = "bare") }

ProsConsText(sc) ==
    IF sc.kind = "lists" THEN Dumps(ProsConsDocument(sc.pros, sc.cons))
    ELSE Chars("Sorry, no data")

InitProsCons ==
    /\ handler = "compare"
    /\ FbAnswered(TRUE)
    /\ scenario \in ProsConsScenarios
    /\ raw = Decorate(scenario.decoration, ProsConsText(scenario))
    /\ today = Date(2024, 1, 10)
    /\ company = JText("Acme")
    /\ CompareIdle
    /\ query = [company_name |-> <<>>, plan_name |-> <<>>]
    /\ csv_content = <<>>
    /\ matched = MatchOutcome(query, csv_content)
    /\ out = Pending

NextProsCons == ComparePolicy

SpecProsCons == InitProsCons /\ [][NextProsCons]_vars

IsPrefix(a, b) == Len(a) <= Len(b) /\ a = SubSeq(b, 1, Len(a))

\* the value under key is a list, in a document that is an object
HasList(doc, key) ==
    doc.t = "obj" /\ HasKey(doc, Chars(key)) /\ Lookup(doc, Chars(key)).t = "arr"

\* C21: in every result compare_policy returns that has both a pros list
\* and a cons list, pros has at most as many entries as cons, each of the two
\* has at most 7 entries, and each is a prefix of the list of the same name
\* recovered from the model text.
C21_ProsNeverOutnumberCons ==
    (out.status = "returned" /\ HasList(out.data, "pros") /\ HasList(out.data, "cons")) =>
        LET pros == Lookup(out.data, Chars("pros")).a
            cons == Lookup(out.data, Chars("cons")).a
            recovered == out.salvaged.v
        IN  /\ Len(pros) <= Len(cons)
            /\ Len(pros) <= 7
            /\ Len(cons) <= 7
            /\ HasList(recovered, "pros")
            /\ HasList(recovered, "cons")
            /\ IsPrefix(pros, Lookup(recovered, Chars("pros")).a)
            /\ IsPrefix(cons, Lookup(recovered, Chars("cons")).a)

\* a reply with more than 7 pros and three cons, returned with three of each
C21_Witness ==
    /\ out.status = "returned"
    /\ scenario.kind = "lists"
    /\ scenario.pros = ItemList("p", MaxItems)
    /\ scenario.cons = ItemList("c", 3)
    /\ Lookup(out.data, Chars("pros")) = ItemList("p", 3)
    /\ Lookup(out.data, Chars("cons")) = ItemList("c", 3)

====
